---------------------------- MODULE Spec2Model ----------------------------
(***************************************************************************)
(* A model of convert_assets.py: the batch FBX -> GLB converter and        *)
(* manifest generator.  Python strings are sequences of one-character      *)
(* strings; floats are fixed-point integers (metrics in hundredths, the    *)
(* rounded values of the manifest in tenths).                              *)
(***************************************************************************)
EXTENDS Integers, Sequences, FiniteSets

(***************************************************************************)
(* Strings                                                                 *)
(***************************************************************************)
\* The printable ASCII characters in code-point order, 32 .. 126 (code point
\* 96, which no text of the model uses, is held by a placeholder).
Ascii ==
  <<" ", "!", "\"", "#", "$", "%", "&", "'", "(", ")", "*", "+", ",", "-", ".", "/",
    "0", "1", "2", "3", "4", "5", "6", "7", "8", "9", ":", ";", "<", "=", ">", "?",
    "@", "A", "B", "C", "D", "E", "F", "G", "H", "I", "J", "K", "L", "M", "N", "O",
    "P", "Q", "R", "S", "T", "U", "V", "W", "X", "Y", "Z", "[", "\\", "]", "^", "_",
    "GRAVE", "a", "b", "c", "d", "e", "f", "g", "h", "i", "j", "k", "l", "m", "n", "o",
    "p", "q", "r", "s", "t", "u", "v", "w", "x", "y", "z", "{", "|", "}", "~">>

Chars == {Ascii[k] : k \in DOMAIN Ascii}

\* ord(c)
Ord == [c \in Chars |-> 31 + CHOOSE k \in DOMAIN Ascii : Ascii[k] = c]

\* str.lower() on one character, and on a string
LowerChar == [c \in Chars |-> IF Ord[c] >= 65 /\ Ord[c] <= 90 THEN Ascii[Ord[c] + 1] ELSE c]

Lower(s) == [k \in 1..Len(s) |-> LowerChar[s[k]]]

\* s.startswith(p)
StartsWith(s, p) == Len(p) <= Len(s) /\ SubSeq(s, 1, Len(p)) = p

\* s.endswith(p)
EndsWith(s, p) == Len(p) <= Len(s) /\ SubSeq(s, Len(s) - Len(p) + 1, Len(s)) = p

\* p in s
Contains(s, p) == \E k \in 0..(Len(s) - Len(p)) : SubSeq(s, k + 1, k + Len(p)) = p

\* s.replace(a, b) for one-character a and b
ReplaceChar(s, a, b) == [k \in 1..Len(s) |-> IF s[k] = a THEN b ELSE s[k]]

\* s < t for Python strings: code-point lexicographic order
StrLess(s, t) ==
  \E k \in 1..(Len(t)) :
     /\ k <= Len(s) + 1
     /\ \A j \in 1..(k - 1) : s[j] = t[j]
     /\ (k = Len(s) + 1 \/ Ord[s[k]] < Ord[t[k]])

StrLeq(s, t) == s = t \/ StrLess(s, t)

(***************************************************************************)
(* Paths.  A file is its path relative to AVATAR_DIR in posix form.        *)
(***************************************************************************)
\* index of the last occurrence of c in s, 0 if none
LastIndexOf(s, c) ==
  IF \E k \in 1..Len(s) : s[k] = c
  THEN CHOOSE k \in 1..Len(s) : s[k] = c /\ \A j \in (k + 1)..Len(s) : s[j] # c
  ELSE 0

\* Path.name: the final path component
PathName(rel) == SubSeq(rel, LastIndexOf(rel, "/") + 1, Len(rel))

\* Path.stem: the name without its last suffix (a leading dot starts no suffix)
PathStem(name) ==
  LET d == LastIndexOf(name, ".")
  IN  IF d > 1 /\ d < Len(name) THEN SubSeq(name, 1, d - 1) ELSE name

SKIP_PREFIXES == << <<"c", "a", "g", "e", "_", "d", "e", "f", "o", "r", "m", "e", "r", "/", "l", "a", "y", "e", "r", "e", "d", "_", "c", "l", "o", "t", "h", "i", "n", "g">> >>

categorize(rel) ==
  LET low == Lower(rel)
  IN  IF StartsWith(low, <<"r", "i", "g", "s", "/">>) THEN "rigs"
      ELSE IF StartsWith(low, <<"c", "a", "g", "e", "_", "d", "e", "f", "o", "r", "m", "e", "r", "/", "c", "u", "b", "e", "/">>) THEN "cage_deformers"
      ELSE "clothing"

\* should_skip without the lower-casing of the path
should_skip_case_sensitive(rel) ==
  \E k \in DOMAIN SKIP_PREFIXES : StartsWith(rel, SKIP_PREFIXES[k])

should_skip(rel) ==
  \E k \in DOMAIN SKIP_PREFIXES : StartsWith(Lower(rel), SKIP_PREFIXES[k])

\* One pass of the prefix loop: strip p when the name starts with it.
StripPrefix(name, p) ==
  IF StartsWith(name, p) THEN SubSeq(name, Len(p) + 1, Len(name)) ELSE name

make_display_name(file_name) ==
  ReplaceChar(StripPrefix(StripPrefix(PathStem(PathName(file_name)), <<"L", "C", "L", "_">>), <<"L", "C", "_">>),
              "_", " ")

(***************************************************************************)
(* Joint Classifier: count_real_joints                                     *)
(***************************************************************************)
\* The scene dump as the sequence of its Node declarations, each given by the
\* text of its name attribute.  re.findall with the pattern of line 68 captures
\* the non-empty names; set(...) drops duplicates.
FindNodeNames(stdout) == {stdout[k] : k \in {j \in DOMAIN stdout : Len(stdout[j]) > 0}}

\* The loop body without the attachment-point rule
IsRealJointDroppingAtt(name) ==
  IF Contains(name, <<"A", "s", "s", "i", "m", "p", "F", "b", "x">>) THEN FALSE
  ELSE IF name \in {<<"R", "o", "o", "t", "N", "o", "d", "e">>} THEN FALSE
  ELSE IF EndsWith(name, <<"_", "G", "e", "o">>) THEN FALSE
  ELSE IF Contains(name, <<"/">>) \/ Contains(name, <<"\\">>) THEN FALSE
  ELSE IF name = <<"T", "e", "x", "t", "u", "r", "e">> THEN FALSE
  ELSE TRUE

\* The body of the for loop: FALSE where a continue is taken, TRUE where
\* real_joints.add(name) is reached.
IsRealJoint(name) ==
  IF Contains(name, <<"A", "s", "s", "i", "m", "p", "F", "b", "x">>) THEN FALSE
  ELSE IF name \in {<<"R", "o", "o", "t", "N", "o", "d", "e">>} THEN FALSE
  ELSE IF EndsWith(name, <<"_", "G", "e", "o">>) THEN FALSE
  ELSE IF EndsWith(name, <<"_", "A", "t", "t">>) THEN FALSE
  ELSE IF Contains(name, <<"/">>) \/ Contains(name, <<"\\">>) THEN FALSE
  ELSE IF name = <<"T", "e", "x", "t", "u", "r", "e">> THEN FALSE
  ELSE TRUE

RealJoints(stdout) == {name \in FindNodeNames(stdout) : IsRealJoint(name)}

\* The result of one assimp dump run: ok is returncode == 0 with no timeout
\* or other exception, stdout the node declarations.
count_real_joints(run) == IF run.ok THEN Cardinality(RealJoints(run.stdout)) ELSE -1

(***************************************************************************)
(* Rounding.  round(x, 2) and round(x, 1) on floats round the exact binary *)
(* value to the nearest decimal, ties to even.                             *)
(***************************************************************************)
\* n / d rounded to the nearest integer, ties to even (n >= 0, d > 0)
RoundHalfEven(n, d) ==
  LET q == n \div d
      r == n % d
  IN  IF 2 * r < d THEN q
      ELSE IF 2 * r > d THEN q + 1
      ELSE IF q % 2 = 0 THEN q ELSE q + 1

\* round(nbytes / 1024, 2), in hundredths.  nbytes / 1024 is exact in binary.
RoundKB(nbytes) == RoundHalfEven(nbytes * 25, 256)

RECURSIVE Pow2Mod100(_)
Pow2Mod100(e) == IF e = 0 THEN 1 ELSE (2 * Pow2Mod100(e - 1)) % 100

\* The binary exponent of h / 100: the k with 2^k <= h/100 < 2^(k+1), h > 0.
RECURSIVE Log2Floor(_, _)
Log2Floor(num, den) ==
  IF num < den THEN Log2Floor(2 * num, den) - 1
  ELSE IF num >= 2 * den THEN Log2Floor(num, 2 * den) + 1
  ELSE 0

\* Whether the double nearest to h / 100 lies above h / 100: the 53-bit
\* mantissa is h * 2^e / 100 rounded, e = 52 - Log2Floor(h, 100), and it is
\* rounded up when the remainder of h * 2^e by 100 exceeds 50.
DoubleAbove(h) ==
  ((h % 100) * Pow2Mod100(52 - Log2Floor(h, 100))) % 100 > 50

\* round(x, 1) of the float x whose value is h hundredths, in tenths (h >= 0)
RoundTenths(h) ==
  LET q == h \div 10
      r == h % 10
  IN  IF r < 5 THEN q
      ELSE IF r > 5 THEN q + 1
      ELSE IF h % 25 = 0 THEN (IF q % 2 = 0 THEN q ELSE q + 1)
      ELSE IF DoubleAbove(h) THEN q + 1 ELSE q

(***************************************************************************)
(* Metric Parser: parse_assimp_info                                        *)
(*                                                                         *)
(* The text of assimp info is a sequence of lines:                       *)
(*   [kind |-> "stat", label, value]   "<label>: <digits>"                 *)
(*   [kind |-> "header", label]        "<label>:" followed by no digits    *)
(*   [kind |-> "mesh", name, vertices, bones, faces]                       *)
(*                                     "  0 (name): [v / b / f | ...]"     *)
(*   [kind |-> "other"]                any line no pattern matches         *)
(***************************************************************************)
FACE_BUDGET == 15000
VERTEX_BUDGET == 20000
MATERIAL_BUDGET == 5
MESH_BUDGET == 20
JOINT_BUDGET == 75

\* re.search(pattern, output): the first capture for a label, or "no match"
HasStat(output, label) ==
  \E k \in DOMAIN output : output[k].kind = "stat" /\ output[k].label = label

FirstStat(output, label) ==
  LET k == CHOOSE k \in DOMAIN output :
             /\ output[k].kind = "stat" /\ output[k].label = label
             /\ \A j \in 1..(k - 1) : ~(output[j].kind = "stat" /\ output[j].label = label)
  IN  output[k].value

\* metrics[key] after the loop over the patterns: the capture, or the default 0
Stat(output, label) == IF HasStat(output, label) THEN FirstStat(output, label) ELSE 0

\* Whether a line carries the text label: (as a stat line or a header)
Mentions(line, label) == line.kind \in {"stat", "header"} /\ line.label = label

\* r"Meshes:.*?\n(.*?)(?=Named Materials:|$)": the lines after the first line
\* that mentions Meshes, up to the first later line that mentions Named
\* Materials (or the end of the text).  No section without a Meshes line.
MeshSection(output) ==
  IF \E k \in DOMAIN output : Mentions(output[k], "Meshes")
  THEN LET first == CHOOSE k \in DOMAIN output :
                      /\ Mentions(output[k], "Meshes")
                      /\ \A j \in 1..(k - 1) : ~Mentions(output[j], "Meshes")
           stops == {k \in (first + 1)..Len(output) : Mentions(output[k], "Named Materials")}
           last  == IF stops = {} THEN Len(output)
                    ELSE (CHOOSE k \in stops : \A j \in stops : k <= j) - 1
       IN  SubSeq(output, first + 1, last)
  ELSE <<>>

\* The loop over the section lines: a line matching the mesh pattern appends
\* one record, any other line is skipped.
RECURSIVE MeshBreakdown(_)
MeshBreakdown(lines) ==
  IF lines = <<>> THEN <<>>
  ELSE LET line == Head(lines)
       IN  (IF line.kind = "mesh"
            THEN << [name |-> line.name, vertices |-> line.vertices,
                     bones |-> line.bones, faces |-> line.faces] >>
            ELSE <<>>) \o MeshBreakdown(Tail(lines))

\* A warning string: its leading text and the number formatted into it (the
\* rest of the string is fixed by the leading text).
Warning(text, value) == [text |-> text, value |-> value]

\* The budget checks with the vertex check before the face check
ParserWarningsVertexFirst(faces, vertices, materials, meshes) ==
     (IF vertices > VERTEX_BUDGET THEN << Warning(<<"H", "I", "G", "H", " ", "V", "E", "R", "T", "E", "X", " ", "C", "O", "U", "N", "T">>, vertices) >> ELSE <<>>)
  \o (IF faces > FACE_BUDGET THEN << Warning(<<"H", "I", "G", "H", " ", "T", "R", "I", "A", "N", "G", "L", "E", " ", "C", "O", "U", "N", "T">>, faces) >> ELSE <<>>)
  \o (IF materials > MATERIAL_BUDGET THEN << Warning(<<"M", "A", "N", "Y", " ", "M", "A", "T", "E", "R", "I", "A", "L", "S">>, materials) >> ELSE <<>>)
  \o (IF meshes > MESH_BUDGET THEN << Warning(<<"M", "A", "N", "Y", " ", "M", "E", "S", "H", "E", "S">>, meshes) >> ELSE <<>>)

\* The budget checks with a face count equal to its budget warned about
ParserWarningsAtBudget(faces, vertices, materials, meshes) ==
     (IF faces >= FACE_BUDGET THEN << Warning(<<"H", "I", "G", "H", " ", "T", "R", "I", "A", "N", "G", "L", "E", " ", "C", "O", "U", "N", "T">>, faces) >> ELSE <<>>)
  \o (IF vertices > VERTEX_BUDGET THEN << Warning(<<"H", "I", "G", "H", " ", "V", "E", "R", "T", "E", "X", " ", "C", "O", "U", "N", "T">>, vertices) >> ELSE <<>>)
  \o (IF materials > MATERIAL_BUDGET THEN << Warning(<<"M", "A", "N", "Y", " ", "M", "A", "T", "E", "R", "I", "A", "L", "S">>, materials) >> ELSE <<>>)
  \o (IF meshes > MESH_BUDGET THEN << Warning(<<"M", "A", "N", "Y", " ", "M", "E", "S", "H", "E", "S">>, meshes) >> ELSE <<>>)

\* lines 137-145: the four budget checks of the parser, in source order
ParserWarnings(faces, vertices, materials, meshes) ==
     (IF faces > FACE_BUDGET THEN << Warning(<<"H", "I", "G", "H", " ", "T", "R", "I", "A", "N", "G", "L", "E", " ", "C", "O", "U", "N", "T">>, faces) >> ELSE <<>>)
  \o (IF vertices > VERTEX_BUDGET THEN << Warning(<<"H", "I", "G", "H", " ", "V", "E", "R", "T", "E", "X", " ", "C", "O", "U", "N", "T">>, vertices) >> ELSE <<>>)
  \o (IF materials > MATERIAL_BUDGET THEN << Warning(<<"M", "A", "N", "Y", " ", "M", "A", "T", "E", "R", "I", "A", "L", "S">>, materials) >> ELSE <<>>)
  \o (IF meshes > MESH_BUDGET THEN << Warning(<<"M", "A", "N", "Y", " ", "M", "E", "S", "H", "E", "S">>, meshes) >> ELSE <<>>)

\* lines 129-131: the byte costs of the GPU memory estimate
VertexBufferBytes(total_vertices) == total_vertices * 64

\* The index buffer cost with two bytes per index
IndexBufferBytes16(total_faces) == total_faces * 3 * 2

IndexBufferBytes(total_faces) == total_faces * 3 * 4

BoneMatrixBytes(node_count) == node_count * 64

parse_assimp_info(output) ==
  LET total_vertices == Stat(output, "Vertices")
      total_faces    == Stat(output, "Faces")
      node_count     == Stat(output, "Nodes")
      mesh_count     == Stat(output, "Meshes")
      material_count == Stat(output, "Materials")
      vb == VertexBufferBytes(total_vertices)
      ib == IndexBufferBytes(total_faces)
      bm == BoneMatrixBytes(node_count)
  IN  [ total_vertices      |-> total_vertices,
        total_faces         |-> total_faces,
        mesh_count          |-> mesh_count,
        node_count          |-> node_count,
        max_depth           |-> Stat(output, "Maximum depth"),
        material_count      |-> material_count,
        texture_count       |-> Stat(output, "Textures (embed.)"),
        memory_bytes        |-> Stat(output, "Memory consumption"),
        vertex_buffer_kb    |-> RoundKB(vb),
        index_buffer_kb     |-> RoundKB(ib),
        bone_matrices_kb    |-> RoundKB(bm),
        total_gpu_memory_kb |-> RoundKB(vb + ib + bm),
        meshes              |-> MeshBreakdown(MeshSection(output)),
        warnings            |-> ParserWarnings(total_faces, total_vertices,
                                               material_count, mesh_count) ]

\* analyze_fbx: info is the result of the assimp info run, dump that of the
\* assimp dump run made by the nested count_real_joints call (not made, and
\* not read here, when info failed).
ErrorRecord == [error |-> "error"]

analyze_fbx(info, dump) ==
  IF ~info.ok THEN ErrorRecord
  ELSE [k \in DOMAIN parse_assimp_info(info.stdout) \cup {"real_joint_count"} |->
          IF k = "real_joint_count" THEN count_real_joints(dump)
          ELSE parse_assimp_info(info.stdout)[k]]

\* dict.get(key, default)
Get(d, key, default) == IF key \in DOMAIN d THEN d[key] ELSE default

(***************************************************************************)
(* Catalog Builder: main                                                   *)
(***************************************************************************)
VARIABLES
  unique_fbx,   \* the deduplicated, sorted input files (relative paths)
  precomputed,  \* load_precomputed(): file name -> metrics record
  idx,          \* position of the for loop in unique_fbx
  pc,           \* position inside the loop body
  metrics,      \* the local metrics of the current iteration
  manifest,     \* category -> list of entries
  converted,
  skipped,
  calls,        \* per file: how many times each external tool was run, and
                \* whether a run of it failed
  made,         \* per file: the entries appended for it, with their base
  arg,          \* input of the pure function under check
  ret           \* its result

vars == << unique_fbx, precomputed, idx, pc, metrics, manifest, converted, skipped,
           calls, made, arg, ret >>

mainVars == << unique_fbx, precomputed, idx, pc, metrics, manifest, converted, skipped,
               calls, made >>

Categories == {"rigs", "clothing", "cage_deformers"}

\* lines 239-248: the warnings of the base record minus those that contain
\* "BONE COUNT", then the joint warning computed from real_joints
RebuildWarnings(m, real_joints) ==
  SelectSeq(Get(m, "warnings", <<>>), LAMBDA w : ~Contains(w.text, <<"B", "O", "N", "E", " ", "C", "O", "U", "N", "T">>))
    \o (IF real_joints > JOINT_BUDGET
        THEN << Warning(<<"H", "I", "G", "H", " ", "J", "O", "I", "N", "T", " ", "C", "O", "U", "N", "T">>, real_joints) >> ELSE <<>>)

\* lines 217-220 and 250-272: the entry of file rel built from metrics m
MakeEntry(rel, m, real_joints) ==
  [ id                  |-> PathStem(PathName(rel)),
    name                |-> make_display_name(PathName(rel)),
    file                |-> [dir |-> categorize(rel), stem |-> PathStem(PathName(rel))],
    category            |-> categorize(rel),
    file_size_mb        |-> Get(m, "file_size_mb", 0),   \* held in hundredths
    total_vertices      |-> Get(m, "total_vertices", 0),
    total_faces         |-> Get(m, "total_faces", 0),
    mesh_count          |-> Get(m, "mesh_count", 0),
    node_count          |-> Get(m, "node_count", 0),
    real_joint_count    |-> real_joints,
    max_depth           |-> Get(m, "max_depth", 0),
    material_count      |-> Get(m, "material_count", 0),
    texture_count       |-> Get(m, "texture_count", 0),
    total_gpu_memory_kb |-> RoundTenths(Get(m, "total_gpu_memory_kb", 0)),
    vertex_buffer_kb    |-> RoundTenths(Get(m, "vertex_buffer_kb", 0)),
    index_buffer_kb     |-> RoundTenths(Get(m, "index_buffer_kb", 0)),
    bone_matrices_kb    |-> RoundTenths(Get(m, "bone_matrices_kb", 0)),
    meshes              |-> Get(m, "meshes", <<>>),
    warnings            |-> RebuildWarnings(m, real_joints) ]

\* list.sort(key=lambda x: x["name"]): a stable sort by display name
RECURSIVE InsertByName(_, _)
InsertByName(sorted, e) ==
  IF sorted = <<>> THEN << e >>
  ELSE IF StrLess(e.name, Head(sorted).name) THEN << e >> \o sorted
  ELSE << Head(sorted) >> \o InsertByName(Tail(sorted), e)

RECURSIVE SortByNameFrom(_, _)
SortByNameFrom(sorted, rest) ==
  IF rest = <<>> THEN sorted
  ELSE SortByNameFrom(InsertByName(sorted, Head(rest)), Tail(rest))

\* The entries left in the order of their appending
Unsorted(entries) == entries

SortByName(entries) == SortByNameFrom(<<>>, entries)

(***************************************************************************)
(* Inputs                                                                  *)
(***************************************************************************)
MaxFiles == 2

\* Candidate files under AVATAR_DIR.
FbxPaths ==
  { <<"R", "i", "g", "s", "/", "L", "C", "_", "b", ".", "F", "B", "X">>,
    <<"r", "i", "g", "s", "/", "B", "_", "x", ".", "f", "b", "x">>,
    <<"c", "a", "g", "e", "_", "d", "e", "f", "o", "r", "m", "e", "r", "/", "c", "u", "b", "e", "/", "c", ".", "f", "b", "x">>,
    <<"C", "a", "g", "e", "_", "D", "e", "f", "o", "r", "m", "e", "r", "/", "L", "a", "y", "e", "r", "e", "d", "_", "C", "l", "o", "t", "h", "i", "n", "g", "_", "2", "/", "s", ".", "f", "b", "x">>,
    <<"r", "i", "g", "s", "x", "/", "L", "C", "L", "_", "L", "C", "_", "a", ".", "f", "b", "x">> }

\* sorted(fbx_files) followed by the deduplication loop: the files of a set in
\* increasing order, each once
RECURSIVE SortedPaths(_)
SortedPaths(S) ==
  IF S = {} THEN <<>>
  ELSE LET least == CHOOSE p \in S : \A q \in S : StrLeq(p, q)
       IN  << least >> \o SortedPaths(S \ {least})

FileLists == {SortedPaths(S) : S \in {T \in SUBSET FbxPaths : Cardinality(T) <= MaxFiles}}

StatLine(label, value) == [kind |-> "stat", label |-> label, value |-> value]
HeaderLine(label) == [kind |-> "header", label |-> label]
MeshLine(name, v, b, f) ==
  [kind |-> "mesh", name |-> name, vertices |-> v, bones |-> b, faces |-> f]
OtherLine == [kind |-> "other"]

\* assimp info texts: every budget exceeded by a wide margin on the first
\* three; every count exactly at its budget; every count one over its budget
\* with a second, smaller Vertices line.
InfoTexts ==
  { << StatLine("Vertices", 25000), StatLine("Faces", 16000), StatLine("Materials", 6) >>,
    << StatLine("Memory consumption", 4096), StatLine("Nodes", 4),
       StatLine("Maximum depth", 3), StatLine("Meshes", MESH_BUDGET),
       StatLine("Materials", MATERIAL_BUDGET), StatLine("Textures (embed.)", 1),
       StatLine("Vertices", VERTEX_BUDGET), StatLine("Faces", FACE_BUDGET),
       HeaderLine("Meshes"), MeshLine(<<"B", "o", "d", "y">>, VERTEX_BUDGET, 4, FACE_BUDGET),
       OtherLine, HeaderLine("Named Materials"), MeshLine(<<"L", "a", "t", "e">>, 1, 1, 1) >>,
    << StatLine("Nodes", 3), StatLine("Meshes", MESH_BUDGET + 1),
       StatLine("Materials", MATERIAL_BUDGET + 1), StatLine("Vertices", VERTEX_BUDGET + 1),
       StatLine("Faces", FACE_BUDGET + 1), StatLine("Vertices", 7) >> }

Digits == <<"0", "1", "2", "3", "4", "5", "6", "7", "8", "9">>

\* n distinct joint names J01, J02, ...
JointNames(n) == [k \in 1..n |-> << "J", Digits[(k \div 10) + 1], Digits[(k % 10) + 1] >>]

\* assimp dump node lists: a small rig among helper nodes; a rig exactly at
\* the joint budget; a rig one over it.
DumpTexts ==
  { << <<"H", "i", "p", "s">>, <<"H", "i", "p", "s", "_", "$", "A", "s", "s", "i", "m", "p", "F", "b", "x", "N", "u", "l", "l", "$", "_", "T", "r", "a", "n", "s", "l", "a", "t", "i", "o", "n">>, <<"M", "e", "s", "h", "_", "G", "e", "o">>, <<"R", "o", "o", "t", "N", "o", "d", "e">>,
       <<"c", "l", "o", "t", "h", "i", "n", "g", "/", "t", "e", "x", ".", "p", "n", "g">> >>,
    << <<"R", "o", "o", "t", "N", "o", "d", "e">> >> \o JointNames(JOINT_BUDGET) \o << <<"J", "0", "1">>, <<"H", "a", "n", "d", "_", "A", "t", "t">> >>,
    JointNames(JOINT_BUDGET + 1) \o << <<"T", "e", "x", "t", "u", "r", "e">> >> }

Failed == [ok |-> FALSE, stdout |-> <<>>]
Succeeded(stdout) == [ok |-> TRUE, stdout |-> stdout]

InfoRuns == {Failed} \cup {Succeeded(t) : t \in InfoTexts}
DumpRuns == {Failed} \cup {Succeeded(t) : t \in DumpTexts}

\* Precomputed records (floats in hundredths).  The first comes from an
\* analyzer that counted every node as a bone and has no real_joint_count;
\* the second carries a validated real_joint_count and a joint warning
\* written for another count; the third has only a few keys.
PrecomputedRecords ==
  << [ file_name |-> <<"L", "C", "_", "b", ".", "F", "B", "X">>, file_size_mb |-> 123,
       total_vertices |-> 25000, total_faces |-> 16000, mesh_count |-> 2,
       node_count |-> 120, max_depth |-> 9, material_count |-> 1, texture_count |-> 0,
       vertex_buffer_kb |-> 156250, index_buffer_kb |-> 18750,
       bone_matrices_kb |-> 750, total_gpu_memory_kb |-> 175750,
       meshes |-> << >>,
       warnings |-> << Warning(<<"H", "I", "G", "H", " ", "B", "O", "N", "E", " ", "C", "O", "U", "N", "T">>, 120),
                       Warning(<<"H", "I", "G", "H", " ", "V", "E", "R", "T", "E", "X", " ", "C", "O", "U", "N", "T">>, 25000),
                       Warning(<<"H", "I", "G", "H", " ", "T", "R", "I", "A", "N", "G", "L", "E", " ", "C", "O", "U", "N", "T">>, 16000) >> ],
     [ file_name |-> <<"c", ".", "f", "b", "x">>, file_size_mb |-> 50,
       total_vertices |-> 8, total_faces |-> 12, mesh_count |-> 1,
       node_count |-> 2, max_depth |-> 1, material_count |-> 1, texture_count |-> 0,
       vertex_buffer_kb |-> 4000, index_buffer_kb |-> 14,
       bone_matrices_kb |-> 12, total_gpu_memory_kb |-> 4026,
       real_joint_count |-> 10,
       meshes |-> << [name |-> <<"C", "u", "b", "e">>, vertices |-> 8, bones |-> 0, faces |-> 12] >>,
       warnings |-> << Warning(<<"H", "I", "G", "H", " ", "J", "O", "I", "N", "T", " ", "C", "O", "U", "N", "T">>, 200) >> ],
     [ file_name |-> <<"B", "_", "x", ".", "f", "b", "x">>, total_faces |-> 16000, real_joint_count |-> 80 ] >>

\* load_precomputed: lookup[entry["file_name"]] = entry over the loaded records
Lookup(records) ==
  [n \in {records[k].file_name : k \in DOMAIN records} |->
     records[CHOOSE k \in DOMAIN records :
               records[k].file_name = n
               /\ \A j \in (k + 1)..Len(records) : records[j].file_name # n]]

\* Neither analysis file exists, or both do.
PrecomputedLookups == {Lookup(<<>>), Lookup(PrecomputedRecords)}

\* The functions below applied to each input of the model, computed once.
JointCounts == [run \in DumpRuns |-> count_real_joints(run)]

Analyses == [info \in InfoRuns |-> [dump \in DumpRuns |-> analyze_fbx(info, dump)]]

Skipped == [rel \in FbxPaths |-> should_skip(rel)]

FileName == [rel \in FbxPaths |-> PathName(rel)]

NoCalls == [convert |-> 0, info |-> 0, dump |-> 0, failed |-> {}]

NotCalled == [done |-> FALSE]
Returned(value) == [done |-> TRUE, value |-> value]

(***************************************************************************)
(* The run of main()                                                       *)
(***************************************************************************)
Init ==
  /\ unique_fbx \in FileLists
  /\ precomputed \in PrecomputedLookups
  /\ idx = 1
  /\ pc = "loop"
  /\ metrics = ErrorRecord
  /\ manifest = [c \in Categories |-> <<>>]
  /\ converted = 0
  /\ skipped = 0
  /\ calls = [k \in DOMAIN unique_fbx |-> NoCalls]
  /\ made = [k \in DOMAIN unique_fbx |-> <<>>]
  /\ arg = <<>>
  /\ ret = NotCalled

InLoop == pc = "loop" /\ idx <= Len(unique_fbx)

fbx_path == unique_fbx[idx]

\* One run of a tool for the current file, recorded.
Ran(c, tool, ok) ==
  [c EXCEPT ![idx] =
     [@ EXCEPT ![tool] = @ + 1,
               !.failed = IF ok THEN @ ELSE @ \cup {tool}]]

\* lines 213-215
SkipFile ==
  /\ InLoop
  /\ Skipped[fbx_path]
  /\ skipped' = skipped + 1
  /\ idx' = idx + 1
  /\ UNCHANGED << unique_fbx, precomputed, pc, metrics, manifest, converted, calls, made,
                  arg, ret >>

\* lines 217-226: convert_fbx_to_glb returned True
ConvertOK ==
  /\ InLoop
  /\ ~Skipped[fbx_path]
  /\ calls' = Ran(calls, "convert", TRUE)
  /\ converted' = converted + 1
  /\ pc' = "metrics"
  /\ UNCHANGED << unique_fbx, precomputed, idx, metrics, manifest, skipped, made, arg, ret >>

\* A failed conversion that falls through to the metrics instead of continuing
ConvertFailedNoContinue ==
  /\ InLoop
  /\ ~Skipped[fbx_path]
  /\ calls' = Ran(calls, "convert", FALSE)
  /\ pc' = "metrics"
  /\ UNCHANGED << unique_fbx, precomputed, idx, metrics, manifest, converted, skipped, made,
                  arg, ret >>

\* lines 217-229: convert_fbx_to_glb returned False (non-zero exit, timeout or
\* another exception of the run); continue
ConvertFailed ==
  /\ InLoop
  /\ ~Skipped[fbx_path]
  /\ calls' = Ran(calls, "convert", FALSE)
  /\ idx' = idx + 1
  /\ UNCHANGED << unique_fbx, precomputed, pc, metrics, manifest, converted, skipped, made,
                  arg, ret >>

\* lines 232-234
UsePrecomputed ==
  /\ pc = "metrics"
  /\ FileName[fbx_path] \in DOMAIN precomputed
  /\ metrics' = precomputed[FileName[fbx_path]]
  /\ pc' = "joints"
  /\ UNCHANGED << unique_fbx, precomputed, idx, manifest, converted, skipped, calls, made,
                  arg, ret >>

\* lines 235-237 with analyze_fbx: assimp info failed
AnalyzeFailed ==
  /\ pc = "metrics"
  /\ FileName[fbx_path] \notin DOMAIN precomputed
  /\ metrics' = Analyses[Failed][Failed]
  /\ calls' = Ran(calls, "info", FALSE)
  /\ pc' = "joints"
  /\ UNCHANGED << unique_fbx, precomputed, idx, manifest, converted, skipped, made, arg, ret >>

\* lines 235-237 with analyze_fbx: assimp info succeeded, and
\* count_real_joints ran assimp dump
AnalyzeOK ==
  /\ pc = "metrics"
  /\ FileName[fbx_path] \notin DOMAIN precomputed
  /\ \E info \in InfoRuns \ {Failed}, dump \in DumpRuns :
        /\ metrics' = Analyses[info][dump]
        /\ calls' = Ran(Ran(calls, "info", TRUE), "dump", dump.ok)
  /\ pc' = "joints"
  /\ UNCHANGED << unique_fbx, precomputed, idx, manifest, converted, skipped, made, arg, ret >>

\* The base of the current metrics, for the record kept in made.
Base == IF FileName[fbx_path] \in DOMAIN precomputed THEN "precomputed" ELSE "fresh"

AppendToManifest(real_joints) ==
  LET entry == MakeEntry(fbx_path, metrics, real_joints)
  IN  /\ manifest' = [manifest EXCEPT ![entry.category] = Append(@, entry)]
      /\ made' = [made EXCEPT ![idx] = Append(@, [base |-> Base, entry |-> entry])]
      /\ idx' = idx + 1
      /\ pc' = "loop"
      /\ metrics' = ErrorRecord

\* lines 240-274 when the base record has a non-negative real_joint_count
AppendEntry ==
  /\ pc = "joints"
  /\ Get(metrics, "real_joint_count", -1) >= 0
  /\ AppendToManifest(Get(metrics, "real_joint_count", -1))
  /\ UNCHANGED << unique_fbx, precomputed, converted, skipped, calls, arg, ret >>

\* lines 240-274 when it has none or a negative one: count_real_joints is
\* called (again)
CountJointsAndAppendEntry ==
  /\ pc = "joints"
  /\ Get(metrics, "real_joint_count", -1) < 0
  /\ \E dump \in DumpRuns :
        /\ calls' = Ran(calls, "dump", dump.ok)
        /\ AppendToManifest(JointCounts[dump])
  /\ UNCHANGED << unique_fbx, precomputed, converted, skipped, arg, ret >>

\* lines 276-282: after the loop, every category is sorted and the manifest
\* written
SortAndWrite ==
  /\ pc = "loop"
  /\ idx > Len(unique_fbx)
  /\ manifest' = [c \in DOMAIN manifest |-> SortByName(manifest[c])]
  /\ pc' = "done"
  /\ UNCHANGED << unique_fbx, precomputed, idx, metrics, converted, skipped, calls, made,
                  arg, ret >>

Next ==
  \/ SkipFile
  \/ ConvertOK
  \/ ConvertFailed
  \/ UsePrecomputed
  \/ AnalyzeFailed
  \/ AnalyzeOK
  \/ AppendEntry
  \/ CountJointsAndAppendEntry
  \/ SortAndWrite

Spec == Init /\ [][Next]_vars

(***************************************************************************)
(* The Joint Classifier and the Metric Parser on their own: the input is   *)
(* drawn from a bounded set and the function applied to it once.           *)
(***************************************************************************)
MaxNodes == 3
MaxLines == 4

\* No run of main: every variable of main at rest.
MainAtRest ==
  /\ unique_fbx = <<>>
  /\ precomputed = Lookup(<<>>)
  /\ idx = 1
  /\ pc = "done"
  /\ metrics = ErrorRecord
  /\ manifest = [c \in Categories |-> <<>>]
  /\ converted = 0
  /\ skipped = 0
  /\ calls = <<>>
  /\ made = <<>>

\* sequences over S of length at most n
SeqsUpTo(S, n) == UNION {[1..k -> S] : k \in 0..n}

NodeNames ==
  { <<"H", "i", "p", "s">>, <<"H", "i", "p", "s", "_", "$", "A", "s", "s", "i", "m", "p", "F", "b", "x", "N", "u", "l", "l", "$", "_", "T", "r", "a", "n", "s", "l", "a", "t", "i", "o", "n">>, <<"M", "e", "s", "h", "_", "G", "e", "o">>, <<"R", "o", "o", "t", "N", "o", "d", "e">>,
    <<"c", "l", "o", "t", "h", "i", "n", "g", "/", "t", "e", "x", ".", "p", "n", "g">>, <<"T", "e", "x", "t", "u", "r", "e">>, <<"H", "a", "n", "d", "_", "A", "t", "t">>, <<"a", "\\", "b">>, <<"G", "e", "o", "_", "S", "p", "i", "n", "e">>,
    <<"r", "o", "o", "t", "n", "o", "d", "e">>, <<>> }

InitJoints ==
  /\ MainAtRest
  /\ arg \in {Failed} \cup {Succeeded(d) : d \in SeqsUpTo(NodeNames, MaxNodes) \cup DumpTexts}
  /\ ret = NotCalled

CountRealJoints ==
  /\ ~ret.done
  /\ ret' = Returned(count_real_joints(arg))
  /\ UNCHANGED << mainVars, arg >>

SpecJoints == InitJoints /\ [][CountRealJoints]_vars

InfoLines ==
  { StatLine("Vertices", 25000), StatLine("Faces", 16000), StatLine("Materials", 6),
    StatLine("Meshes", MESH_BUDGET), StatLine("Meshes", MESH_BUDGET + 1),
    StatLine("Vertices", 100), MeshLine(<<"B", "o", "d", "y">>, 100, 2, 50), HeaderLine("Named Materials") }

InitParser ==
  /\ MainAtRest
  /\ arg \in SeqsUpTo(InfoLines, MaxLines)
  /\ ret = NotCalled

ParseAssimpInfo ==
  /\ ~ret.done
  /\ ret' = Returned(parse_assimp_info(arg))
  /\ UNCHANGED << mainVars, arg >>

SpecParser == InitParser /\ [][ParseAssimpInfo]_vars

(***************************************************************************)
(* Properties                                                              *)
(***************************************************************************)
Files == DOMAIN unique_fbx

\* The iteration of file k is over.
Finished(k) == idx > k

RunFailed(k, tool) == tool \in calls[k].failed

Occurrences(seq, x) == Cardinality({i \in DOMAIN seq : seq[i] = x})

\* The entries appended for file k, and for all files
EntriesOf(k) == {made[k][j].entry : j \in DOMAIN made[k]}

MadeEntries == UNION {EntriesOf(k) : k \in Files}

RECURSIVE MadeCountUpTo(_, _)
MadeCountUpTo(k, e) ==
  IF k = 0 THEN 0
  ELSE MadeCountUpTo(k - 1, e) + Cardinality({j \in DOMAIN made[k] : made[k][j].entry = e})

ManifestEntries == UNION {{manifest[c][i] : i \in DOMAIN manifest[c]} : c \in DOMAIN manifest}

\* The manifest holds exactly the entries appended for the files, each under
\* its own category and nowhere else.
ManifestIsWhatWasMade ==
  /\ ManifestEntries = MadeEntries
  /\ \A e \in MadeEntries :
        /\ Occurrences(manifest[e.category], e) = MadeCountUpTo(Len(unique_fbx), e)
        /\ \A c \in Categories \ {e.category} : Occurrences(manifest[c], e) = 0

\* A file under a configured skip prefix, as the skip rule words it
UnderSkipPrefix(rel) ==
  StartsWith(Lower(rel), <<"c", "a", "g", "e", "_", "d", "e", "f", "o", "r", "m", "e", "r", "/", "l", "a", "y", "e", "r", "e", "d", "_", "c", "l", "o", "t", "h", "i", "n", "g">>)

SkipRule == [rel \in FbxPaths |-> UnderSkipPrefix(rel)]

ConvertedOK(k) == calls[k].convert > 0 /\ ~RunFailed(k, "convert")

\* C1: a file whose conversion fails gets no manifest entry, no info or dump
\* run is made for it, and the batch goes on: the failure ends the iteration of
\* that file alone, and the run ends only after the last file, with every file
\* either skipped or handed to convert.
C1_ConversionFailureIsolated ==
  /\ ManifestIsWhatWasMade
  /\ \A k \in Files :
        RunFailed(k, "convert") =>
          /\ made[k] = <<>>
          /\ calls[k].info = 0
          /\ calls[k].dump = 0
          /\ Finished(k)
  /\ pc = "done" =>
        \A k \in Files : SkipRule[unique_fbx[k]] \/ calls[k].convert = 1

\* A run that ended, in which a conversion failed and a later file got an entry.
C1_Witness ==
  /\ pc = "done"
  /\ \E k \in Files :
        /\ RunFailed(k, "convert")
        /\ k < Len(unique_fbx)
        /\ made[k + 1] # <<>>

IsFresh(k) == FileName[unique_fbx[k]] \notin DOMAIN precomputed

ZeroCounts(e) ==
  /\ e.total_vertices = 0 /\ e.total_faces = 0 /\ e.mesh_count = 0
  /\ e.node_count = 0 /\ e.max_depth = 0 /\ e.material_count = 0
  /\ e.texture_count = 0

IsJointWarning(w) ==
  Contains(w.text, <<"J", "O", "I", "N", "T", " ", "C", "O", "U", "N", "T">>) \/ Contains(w.text, <<"B", "O", "N", "E", " ", "C", "O", "U", "N", "T">>)

JointWarningsOf(e) == SelectSeq(e.warnings, IsJointWarning)

\* C2: a file with no precomputed record whose conversion succeeded and whose
\* info or dump run failed has exactly one entry once its iteration is over;
\* after a failed info run every count of the entry is 0 and meshes is empty;
\* after a failed dump run real_joint_count is -1 and there is no joint warning.
C2_AnalysisFailureDegrades ==
  \A k \in Files :
     (Finished(k) /\ IsFresh(k) /\ ConvertedOK(k)
        /\ (RunFailed(k, "info") \/ RunFailed(k, "dump")))
     => /\ Len(made[k]) = 1
        /\ RunFailed(k, "info") =>
              ZeroCounts(made[k][1].entry) /\ made[k][1].entry.meshes = <<>>
        /\ RunFailed(k, "dump") =>
              /\ made[k][1].entry.real_joint_count = -1
              /\ JointWarningsOf(made[k][1].entry) = <<>>

\* C3: the joint or bone count warnings of every manifest entry are exactly one
\* warning stating real_joint_count when real_joint_count > 75, and none
\* otherwise, whatever warnings the base record carried.
C3_OneAuthoritativeJointWarning ==
  \A e \in ManifestEntries :
     JointWarningsOf(e) =
       IF e.real_joint_count > 75
       THEN << Warning(<<"H", "I", "G", "H", " ", "J", "O", "I", "N", "T", " ", "C", "O", "U", "N", "T">>, e.real_joint_count) >>
       ELSE <<>>

\* C4: a file under a skip prefix is never handed to convert, info or dump and
\* gets no entry; it counts in skipped alone: skipped is the number of such
\* files passed so far, converted the number of files converted.
C4_SkippedFileOnlyCounted ==
  /\ ManifestIsWhatWasMade
  /\ \A k \in Files :
        SkipRule[unique_fbx[k]] => calls[k] = NoCalls /\ made[k] = <<>>
  /\ skipped = Cardinality({k \in Files : Finished(k) /\ SkipRule[unique_fbx[k]]})
  /\ converted = Cardinality({k \in Files : ConvertedOK(k)})

\* A run that ended with one file skipped and another converted.
C4_Witness ==
  /\ pc = "done"
  /\ skipped = 1
  /\ converted >= 1
  /\ \E k \in Files : SkipRule[unique_fbx[k]]

\* C5: each external tool is run at most once per file.
C5_NoRetries ==
  \A k \in Files : calls[k].convert <= 1 /\ calls[k].info <= 1 /\ calls[k].dump <= 1

\* The cost model of the GPU memory fields, in tenths of a KB: bytes / 1024
\* rounded to two decimals and then to one.
CostKB(nbytes) == RoundTenths(RoundKB(nbytes))

FollowsCostModel(e) ==
  /\ e.vertex_buffer_kb = CostKB(e.total_vertices * 64)
  /\ e.index_buffer_kb = CostKB(e.total_faces * 3 * 4)
  /\ e.bone_matrices_kb = CostKB(e.node_count * 64)
  /\ e.total_gpu_memory_kb =
       CostKB(e.total_vertices * 64 + e.total_faces * 3 * 4 + e.node_count * 64)

SameCounts(e, f) ==
  /\ e.total_vertices = f.total_vertices
  /\ e.total_faces = f.total_faces
  /\ e.node_count = f.node_count

SameGpuFields(e, f) ==
  /\ e.vertex_buffer_kb = f.vertex_buffer_kb
  /\ e.index_buffer_kb = f.index_buffer_kb
  /\ e.bone_matrices_kb = f.bone_matrices_kb
  /\ e.total_gpu_memory_kb = f.total_gpu_memory_kb

\* C6 as claimed: the GPU memory fields of every manifest entry follow from its
\* own counts through the cost model, and entries with equal counts have equal
\* GPU memory fields.
C6_GpuFieldsFromCounts ==
  /\ \A e \in ManifestEntries : FollowsCostModel(e)
  /\ \A e, f \in ManifestEntries : SameCounts(e, f) => SameGpuFields(e, f)

\* C6 as amended: the GPU memory fields of an entry built on a fresh analysis
\* follow from its own counts through the cost model, and two such entries with
\* equal counts have equal fields; those of an entry built on a precomputed
\* record are that record's fields (0 where it has none) rounded to one
\* decimal.
C6_GpuFieldsFromCountsWhenFresh ==
  /\ ManifestEntries = MadeEntries
  /\ \A k \in Files : \A j \in DOMAIN made[k] :
        LET e == made[k][j].entry
        IN  IF made[k][j].base = "fresh"
            THEN /\ IsFresh(k)
                 /\ FollowsCostModel(e)
                 /\ \A f \in MadeEntries :
                       (\E k2 \in Files : IsFresh(k2) /\ f \in EntriesOf(k2))
                         /\ SameCounts(e, f) => SameGpuFields(e, f)
            ELSE LET r == precomputed[FileName[unique_fbx[k]]]
                 IN  /\ e.vertex_buffer_kb = RoundTenths(Get(r, "vertex_buffer_kb", 0))
                     /\ e.index_buffer_kb = RoundTenths(Get(r, "index_buffer_kb", 0))
                     /\ e.bone_matrices_kb = RoundTenths(Get(r, "bone_matrices_kb", 0))
                     /\ e.total_gpu_memory_kb =
                          RoundTenths(Get(r, "total_gpu_memory_kb", 0))

\* A run that made an entry with geometry from a fresh analysis and an entry
\* from a precomputed record whose fields differ from the cost model.
C6_Witness ==
  /\ \E k \in Files : \E j \in DOMAIN made[k] :
        made[k][j].base = "fresh" /\ made[k][j].entry.total_faces > 0
  /\ \E k \in Files : \E j \in DOMAIN made[k] :
        made[k][j].base = "precomputed" /\ ~FollowsCostModel(made[k][j].entry)

\* The warnings of the budgets an entry exceeds, in the order faces, vertices,
\* materials, meshes, joints.
BudgetTable(e) ==
  << [text |-> <<"H", "I", "G", "H", " ", "T", "R", "I", "A", "N", "G", "L", "E", " ", "C", "O", "U", "N", "T">>, value |-> e.total_faces, budget |-> 15000],
     [text |-> <<"H", "I", "G", "H", " ", "V", "E", "R", "T", "E", "X", " ", "C", "O", "U", "N", "T">>, value |-> e.total_vertices, budget |-> 20000],
     [text |-> <<"M", "A", "N", "Y", " ", "M", "A", "T", "E", "R", "I", "A", "L", "S">>, value |-> e.material_count, budget |-> 5],
     [text |-> <<"M", "A", "N", "Y", " ", "M", "E", "S", "H", "E", "S">>, value |-> e.mesh_count, budget |-> 20],
     [text |-> <<"H", "I", "G", "H", " ", "J", "O", "I", "N", "T", " ", "C", "O", "U", "N", "T">>, value |-> e.real_joint_count, budget |-> 75] >>

BudgetWarnings(e) ==
  LET over == SelectSeq(BudgetTable(e), LAMBDA b : b.value > b.budget)
  IN  [i \in DOMAIN over |-> Warning(over[i].text, over[i].value)]

\* C7 as claimed: the warnings of every manifest entry are exactly those of the
\* budgets its metrics and joint count strictly exceed, one each, in the fixed
\* order.
C7_WarningsAreBudgetsExceeded ==
  \A e \in ManifestEntries : e.warnings = BudgetWarnings(e)

\* C7 as amended: the same, for every entry built on a fresh analysis; the
\* warnings of an entry built on a precomputed record are the warnings of that
\* record which do not contain BONE COUNT, in the order of the record,
\* followed by the joint warning when real_joint_count > 75.
C7_WarningsAreBudgetsExceededWhenFresh ==
  /\ ManifestEntries = MadeEntries
  /\ \A k \in Files : \A j \in DOMAIN made[k] :
        LET e == made[k][j].entry
        IN  IF made[k][j].base = "fresh"
            THEN IsFresh(k) /\ e.warnings = BudgetWarnings(e)
            ELSE e.warnings =
                   SelectSeq(Get(precomputed[FileName[unique_fbx[k]]], "warnings", <<>>),
                             LAMBDA w : ~Contains(w.text, <<"B", "O", "N", "E", " ", "C", "O", "U", "N", "T">>))
                   \o (IF e.real_joint_count > 75
                       THEN << Warning(<<"H", "I", "G", "H", " ", "J", "O", "I", "N", "T", " ", "C", "O", "U", "N", "T">>, e.real_joint_count) >>
                       ELSE <<>>)

\* A run with a fresh entry over all five budgets and a fresh entry with
\* geometry exactly at the budgets and 75 joints.
C7_Witness ==
  /\ \E e \in MadeEntries : Len(e.warnings) = 5 /\ e.warnings = BudgetWarnings(e)
  /\ \E k \in Files : \E j \in DOMAIN made[k] :
        /\ made[k][j].base = "fresh"
        /\ made[k][j].entry.total_faces = 15000
        /\ made[k][j].entry.total_vertices = 20000
        /\ made[k][j].entry.real_joint_count = 75
        /\ made[k][j].entry.warnings = <<>>

\* The category rule: the first matching prefix of the lower-cased relative
\* path.
CategoryRule(rel) ==
  IF StartsWith(Lower(rel), <<"r", "i", "g", "s", "/">>) THEN "rigs"
  ELSE IF StartsWith(Lower(rel), <<"c", "a", "g", "e", "_", "d", "e", "f", "o", "r", "m", "e", "r", "/", "c", "u", "b", "e", "/">>) THEN "cage_deformers"
  ELSE "clothing"

CategoryByRule == [rel \in FbxPaths |-> CategoryRule(rel)]

\* C9: the manifest has the three keys rigs, clothing and cage_deformers; every
\* entry is listed under its own category, which is the category rule applied
\* to the path of its file; when the run has ended every list is in
\* non-decreasing order of display name.
C9_ManifestShape ==
  /\ DOMAIN manifest = {"rigs", "clothing", "cage_deformers"}
  /\ ManifestIsWhatWasMade
  /\ \A c \in DOMAIN manifest : \A i \in DOMAIN manifest[c] : manifest[c][i].category = c
  /\ \A k \in Files : \A e \in EntriesOf(k) : e.category = CategoryByRule[unique_fbx[k]]
  /\ pc = "done" =>
        \A c \in DOMAIN manifest : \A i \in 1..(Len(manifest[c]) - 1) :
           StrLeq(manifest[c][i].name, manifest[c][i + 1].name)

\* A run that ended with two entries of one category appended out of name
\* order.
C9_Witness ==
  /\ pc = "done"
  /\ \E k1, k2 \in Files :
        /\ k1 < k2
        /\ made[k1] # <<>> /\ made[k2] # <<>>
        /\ made[k1][1].entry.category = made[k2][1].entry.category
        /\ StrLess(made[k2][1].entry.name, made[k1][1].entry.name)

\* The texts of a list of warnings
WarningTexts(ws) == [i \in DOMAIN ws |-> ws[i].text]

\* Parsed counts over the vertex, face and material budgets, mesh count within
\* its budget
OverThreeBudgets(m) ==
  /\ m.total_vertices > 20000
  /\ m.total_faces > 15000
  /\ m.material_count > 5
  /\ m.mesh_count <= 20

\* C8 as claimed: for a text whose vertex, face and material counts exceed
\* their budgets and whose mesh count does not, the parser yields three
\* warnings: high vertex count, high triangle count, many materials.
C8_ScenarioAVertexFirst ==
  (ret.done /\ OverThreeBudgets(ret.value)) =>
     WarningTexts(ret.value.warnings) =
       << <<"H", "I", "G", "H", " ", "V", "E", "R", "T", "E", "X", " ", "C", "O", "U", "N", "T">>, <<"H", "I", "G", "H", " ", "T", "R", "I", "A", "N", "G", "L", "E", " ", "C", "O", "U", "N", "T">>, <<"M", "A", "N", "Y", " ", "M", "A", "T", "E", "R", "I", "A", "L", "S">> >>

\* C8 as amended: it yields exactly three warnings in the order high triangle
\* count, high vertex count, many materials, each stating its count.
C8_ScenarioATriangleFirst ==
  (ret.done /\ OverThreeBudgets(ret.value)) =>
     ret.value.warnings =
       << Warning(<<"H", "I", "G", "H", " ", "T", "R", "I", "A", "N", "G", "L", "E", " ", "C", "O", "U", "N", "T">>, ret.value.total_faces),
          Warning(<<"H", "I", "G", "H", " ", "V", "E", "R", "T", "E", "X", " ", "C", "O", "U", "N", "T">>, ret.value.total_vertices),
          Warning(<<"M", "A", "N", "Y", " ", "M", "A", "T", "E", "R", "I", "A", "L", "S">>, ret.value.material_count) >>

\* The parser has returned for the text Vertices: 25000, Faces: 16000,
\* Materials: 6.
C8_Witness ==
  /\ ret.done
  /\ arg = << StatLine("Vertices", 25000), StatLine("Faces", 16000),
              StatLine("Materials", 6) >>
  /\ OverThreeBudgets(ret.value)
  /\ Len(ret.value.warnings) = 3

\* The exclusion rules of the Joint Classifier
MatchesExclusionRule(name) ==
  \/ Contains(name, <<"A", "s", "s", "i", "m", "p", "F", "b", "x">>)
  \/ name = <<"R", "o", "o", "t", "N", "o", "d", "e">>
  \/ EndsWith(name, <<"_", "G", "e", "o">>)
  \/ EndsWith(name, <<"_", "A", "t", "t">>)
  \/ Contains(name, <<"/">>)
  \/ Contains(name, <<"\\">>)
  \/ name = <<"T", "e", "x", "t", "u", "r", "e">>

\* The positions of a dump that hold the first occurrence of a name the node
\* pattern captures and no exclusion rule matches
CountedPositions(stdout) ==
  {k \in DOMAIN stdout :
     /\ stdout[k] # <<>>
     /\ ~MatchesExclusionRule(stdout[k])
     /\ \A j \in 1..(k - 1) : stdout[j] # stdout[k]}

Reorderings(n) == {p \in [1..n -> 1..n] : \A i, j \in 1..n : p[i] = p[j] => i = j}

Reordered(stdout, p) == [k \in DOMAIN stdout |-> stdout[p[k]]]

Reversed(stdout) == [k \in DOMAIN stdout |-> stdout[Len(stdout) + 1 - k]]

\* C10: for a successful dump count_real_joints returns the number of distinct
\* captured names that match no exclusion rule, and returns the same number
\* for the dump reversed and, for a dump of at most MaxNodes declarations, for
\* every reordering of it.
C10_JointCountIsFilteredDistinctNames ==
  (ret.done /\ arg.ok) =>
     /\ ret.value = Cardinality(CountedPositions(arg.stdout))
     /\ count_real_joints(Succeeded(Reversed(arg.stdout))) = ret.value
     /\ Len(arg.stdout) <= MaxNodes =>
          \A p \in Reorderings(Len(arg.stdout)) :
             count_real_joints(Succeeded(Reordered(arg.stdout, p))) = ret.value

\* count_real_joints has returned 1 for the dump Hips, its translation helper,
\* Mesh_Geo, RootNode and a texture path.
C10_Witness ==
  /\ ret.done
  /\ arg = Succeeded(<< <<"H", "i", "p", "s">>, <<"H", "i", "p", "s", "_", "$", "A", "s", "s", "i", "m", "p", "F", "b", "x", "N", "u", "l", "l", "$", "_", "T", "r", "a", "n", "s", "l", "a", "t", "i", "o", "n">>, <<"M", "e", "s", "h", "_", "G", "e", "o">>,
                        <<"R", "o", "o", "t", "N", "o", "d", "e">>, <<"c", "l", "o", "t", "h", "i", "n", "g", "/", "t", "e", "x", ".", "p", "n", "g">> >>)
  /\ ret.value = 1

====
